---- MODULE Spec2Model ----
(***************************************************************************)
(* State-machine model of capture_payment (src/main.py), the handler of    *)
(* POST /api/paypal/capture-payment: validation, OAuth token call, order   *)
(* capture call, status verification, field extraction, best-effort        *)
(* receipt persistence and the response, with the try/except structure of  *)
(* the handler modelled as operators over exception values.                *)
(***************************************************************************)
EXTENDS Integers, Sequences, FiniteSets, TLC

\* ------------------------------------------------------------------ bounds
\* longest purchase_units / captures / details list an upstream body carries
MaxItems == 2
\* longest upstream response text, in characters
MaxBodyLen == 600

\* ------------------------------------------------------- program constants
\* status cap of the capture-error mapping: min(status_code, 500)
StatusCap == 500
\* characters of the raw body quoted by the JSON-error fallback message
RawBodyChars == 300
\* characters of the raw body quoted by the non-JSON fallback messages
ErrorTextChars == 500
\* str(int(timestamp))[-6:]
DonationIdDigits == 6
\* int(timestamp * 1000) % 10000, zfill(4)
ReceiptModulus == 10000
ReceiptDigits == 4

\* the requests in flight; each runs capture_payment once
Reqs == {1, 2}

Min(a, b) == IF a <= b THEN a ELSE b

\* ------------------------------------------------------------ JSON values
\* A python/JSON value is a tagged record; a raised exception travelling
\* through an expression is the tag "raise".
JNull == [t |-> "null"]
JStr(s) == [t |-> "str", v |-> s]
JNum(n) == [t |-> "num", v |-> n]
JList(q) == [t |-> "list", v |-> q]
JDict(f) == [t |-> "dict", v |-> f]
EmptyDict == JDict(<<>>)
NotJSON == [t |-> "notjson"]
PyRaise(kind) == [t |-> "raise", v |-> kind]
\* the text of an HTTP body: only its length matters to the slices [:300], [:500]
Text(n) == [t |-> "text", v |-> n]

IsRaise(x) == x.t = "raise"
\* isinstance(x, dict)
IsDict(x) == x.t = "dict"

\* python truthiness of a value
Truthy(x) ==
    CASE x.t = "null" -> FALSE
      [] x.t = "str" -> x.v # ""
      [] x.t = "num" -> x.v # 0
      [] x.t = "list" -> Len(x.v) > 0
      [] x.t = "dict" -> DOMAIN x.v # {}
      [] x.t = "text" -> x.v > 0
      [] OTHER -> TRUE

\* a or b
PyOr(a, b) == IF Truthy(a) THEN a ELSE b

\* x.get(k, d): AttributeError on anything that is not a dict
Get(x, k, d) ==
    IF IsRaise(x) THEN x
    ELSE IF IsDict(x) THEN (IF k \in DOMAIN x.v THEN x.v[k] ELSE d)
    ELSE PyRaise("AttributeError")

\* x[0]: IndexError on an empty list, KeyError on a dict (JSON keys are
\* strings), TypeError on null and numbers.  A string is indexed only when
\* it has at most one character, where x[0] is x itself.
Index0(x) ==
    CASE IsRaise(x) -> x
      [] x.t = "list" -> IF Len(x.v) = 0 THEN PyRaise("IndexError") ELSE x.v[1]
      [] x.t = "dict" -> PyRaise("KeyError")
      [] x.t = "str" -> IF x.v = "" THEN PyRaise("IndexError") ELSE x
      [] OTHER -> PyRaise("TypeError")

\* text[:n]
Slice(text, n) == Text(Min(text.v, n))

\* --------------------------------------------------------------- exceptions
\* An exception in flight: its class, str(e) as a sequence of message parts,
\* and, for HTTPException, the status code and headers it carries.
NoHeaders == {}
HTTPException(code, detail, headers) ==
    [kind |-> "HTTPException", status_code |-> code, detail |-> detail, headers |-> headers]
PyExc(kind, msg) ==
    [kind |-> kind, status_code |-> 0, detail |-> msg, headers |-> NoHeaders]
NoExc == [kind |-> "none", status_code |-> 0, detail |-> <<>>, headers |-> NoHeaders]

\* str(e) of the exception a failed expression raised
ExcOf(x) == PyExc(x.v, <<JStr(x.v)>>)

\* subclasses of requests.exceptions.RequestException.  Response.json()
\* raises requests.exceptions.JSONDecodeError (a RequestException and a
\* ValueError) in requests >= 2.27 and a plain json ValueError before.
IsRequestException(kind) ==
    kind \in {"Timeout", "ConnectionError", "HTTPError", "RequestException",
              "requests.JSONDecodeError"}

\* detail contains the part s
Contains(detail, s) == \E i \in 1..Len(detail) : detail[i] = s

\* ------------------------------------------------------- exception handlers
\* str(e) if str(e) else f"{error_type} occurred"
RequestErrorMessage(e) ==
    IF e.detail # <<>> THEN e.detail ELSE <<JStr(e.kind), JStr(" occurred")>>

\* the detail_msg of the "except requests.exceptions.RequestException" clause
RequestExceptionDetail(e) ==
    CASE e.kind = "Timeout" ->
            <<JStr("PayPal API request timed out. Please try again.")>>
      [] e.kind = "ConnectionError" ->
            <<JStr("Unable to connect to PayPal API. Check your internet connection.")>>
      [] e.kind = "HTTPError" ->
            <<JStr("PayPal API HTTP error: ")>> \o RequestErrorMessage(e)
      [] OTHER ->
            <<JStr("PayPal API request failed: ")>> \o RequestErrorMessage(e)

\* the error_message of the "except Exception" clause of step 2
CaptureFailedMessage(e) ==
    IF e.detail # <<>> THEN e.detail
    ELSE <<JStr("PayPal API call failed ("), JStr(e.kind), JStr(")")>>

\* mutant of CaptureBlockHandler: the "except Exception" clause answers 500
CaptureBlockHandlerGeneric500(e) ==
    IF e.kind = "HTTPException" THEN e
    ELSE IF IsRequestException(e.kind)
         THEN HTTPException(500, RequestExceptionDetail(e), NoHeaders)
    ELSE HTTPException(500, <<JStr("PayPal capture failed: ")>> \o CaptureFailedMessage(e),
                       NoHeaders)

\* The except clauses that close the try block of step 2 (token and capture
\* calls): HTTPException is re-raised as it is, a requests exception becomes
\* a 500, anything else becomes a 400 "PayPal capture failed".
CaptureBlockHandler(e) ==
    IF e.kind = "HTTPException" THEN e
    ELSE IF IsRequestException(e.kind)
         THEN HTTPException(500, RequestExceptionDetail(e), NoHeaders)
    ELSE HTTPException(400, <<JStr("PayPal capture failed: ")>> \o CaptureFailedMessage(e),
                       NoHeaders)

\* mutant of OuterHandler: no "except HTTPException: raise" clause
OuterHandlerWrapsAll(e) ==
    HTTPException(500, <<JStr("Internal server error: ")>> \o e.detail, NoHeaders)

\* The except clauses that close the try block of the whole handler:
\* HTTPException is re-raised as it is, anything else becomes a 500.
OuterHandler(e) ==
    IF e.kind = "HTTPException" THEN e
    ELSE HTTPException(500, <<JStr("Internal server error: ")>> \o e.detail, NoHeaders)

\* What the framework sends for an exception that left the handler: the
\* HTTPException's own status, detail and headers, and for anything else the
\* global exception handler's 500.
NoPayment == JNull
NoDonation == JNull
ErrorResponse(e) ==
    IF e.kind = "HTTPException"
    THEN [status_code |-> e.status_code, detail |-> e.detail, headers |-> e.headers,
          success |-> FALSE, payment |-> NoPayment, donation |-> NoDonation,
          message |-> ""]
    ELSE [status_code |-> 500, detail |-> <<JStr("error_id")>> \o e.detail,
          headers |-> NoHeaders, success |-> FALSE, payment |-> NoPayment,
          donation |-> NoDonation, message |-> "Internal server error"]

NoResponse ==
    [status_code |-> 0, detail |-> <<>>, headers |-> NoHeaders, success |-> FALSE,
     payment |-> NoPayment, donation |-> NoDonation, message |-> ""]

\* ------------------------------------------- capture error mapping (step 2)
\* sep.join(segs) over sequences of message parts
RECURSIVE Join(_, _)
Join(segs, sep) ==
    IF Len(segs) = 0 THEN <<>>
    ELSE IF Len(segs) = 1 THEN segs[1]
    ELSE segs[1] \o <<sep>> \o Join(Tail(segs), sep)

\* the detail_str built for one entry of details[]; <<>> when the entry has
\* neither issue nor description and is skipped
DetailStr(d) ==
    LET issue == Get(d, "issue", JStr(""))
        description == Get(d, "description", JStr(""))
        field == Get(d, "field", JStr(""))
    IN  IF Truthy(issue) \/ Truthy(description)
        THEN (IF Truthy(field) THEN <<field, JStr(": "), issue>> ELSE <<issue>>)
             \o (IF Truthy(description) THEN <<JStr(" - "), description>> ELSE <<>>)
        ELSE <<>>

\* the loop "for d in error_details": a list of detail_str, or the
\* AttributeError of d.get on an entry that is not a dict
RECURSIVE DetailList(_)
DetailList(items) ==
    IF Len(items) = 0 THEN JList(<<>>)
    ELSE IF ~IsDict(Head(items)) THEN PyRaise("AttributeError")
    ELSE LET rest == DetailList(Tail(items))
             seg == DetailStr(Head(items))
         IN  IF IsRaise(rest) THEN rest
             ELSE IF seg = <<>> THEN rest
             ELSE JList(<<seg>> \o rest.v)

\* min(status_code, 500)
CappedStatus(status_code) == Min(status_code, StatusCap)

\* the except (ValueError, KeyError, TypeError) branch: raw-body message
NonJsonCaptureError(resp) ==
    HTTPException(CappedStatus(resp.status_code),
        IF Truthy(resp.text)
        THEN <<JStr("PayPal API error (HTTP "), JNum(resp.status_code), JStr("): "),
               Slice(resp.text, ErrorTextChars)>>
        ELSE <<JStr("PayPal API returned error status "), JNum(resp.status_code),
               JStr(" with no response body")>>,
        NoHeaders)

\* The exception raised for a capture response that is not ok: the
\* HTTPException built from the error envelope, the raw-body one when the
\* body is not JSON or building the message raises TypeError, or the
\* AttributeError of .get on a body or a details entry that is not a dict,
\* which the except (ValueError, KeyError, TypeError) clause lets through.
CaptureError(resp) ==
    LET error_data == resp.json
        error_message == PyOr(PyOr(Get(error_data, "message", JStr("")),
                                   Get(error_data, "error", JStr(""))),
                              JStr("Unknown error"))
        error_name == Get(error_data, "name", JStr(""))
        error_details == Get(error_data, "details", JList(<<>>))
        debug_id == Get(error_data, "debug_id", JStr(""))
        detail_parts ==
            (IF Truthy(error_name) THEN <<error_name>> ELSE <<>>)
            \o (IF Truthy(error_message) /\ error_message # JStr("Unknown error")
                THEN <<error_message>> ELSE <<>>)
        joinRaises == \E i \in 1..Len(detail_parts) : detail_parts[i].t # "str"
        header == IF detail_parts # <<>>
                  THEN <<JStr("PayPal API Error: ")>>
                       \o Join([i \in 1..Len(detail_parts) |-> <<detail_parts[i]>>],
                               JStr(" - "))
                  ELSE <<JStr("PayPal API Error")>>
        detail_list ==
            IF ~Truthy(error_details) THEN JList(<<>>)
            ELSE CASE error_details.t = "list" -> DetailList(error_details.v)
                   [] error_details.t = "num" -> PyRaise("TypeError")
                   [] OTHER -> PyRaise("AttributeError")
        withDetails ==
            header \o (IF detail_list.v # <<>>
                       THEN <<JStr(" (")>> \o Join(detail_list.v, JStr("; "))
                            \o <<JStr(")")>>
                       ELSE <<>>)
        withDebug ==
            withDetails \o (IF Truthy(debug_id)
                            THEN <<JStr(" [Debug ID: "), debug_id, JStr("]")>>
                            ELSE <<>>)
        detail_msg ==
            IF withDebug = <<JStr("PayPal API Error")>>
            THEN <<JStr("PayPal API returned error (HTTP "), JNum(resp.status_code),
                   JStr("): "), Slice(resp.text, RawBodyChars)>>
            ELSE withDebug
    IN  IF error_data = NotJSON THEN NonJsonCaptureError(resp)
        ELSE IF ~IsDict(error_data) THEN ExcOf(PyRaise("AttributeError"))
        ELSE IF joinRaises THEN NonJsonCaptureError(resp)
        ELSE IF IsRaise(detail_list)
             THEN (IF detail_list.v = "TypeError" THEN NonJsonCaptureError(resp)
                   ELSE ExcOf(detail_list))
        ELSE HTTPException(CappedStatus(resp.status_code), detail_msg, NoHeaders)

\* ------------------------------------------------ field extraction (step 4)
\* an f-string of several parts; a single part is that string itself
FStr(parts) ==
    IF Len(parts) = 0 THEN JStr("")
    ELSE IF Len(parts) = 1 THEN parts[1]
    ELSE [t |-> "fstr", v |-> parts]

\* f"{given_name} {surname}".strip() for names without outer whitespace
PayerName(given_name, surname) ==
    FStr((IF given_name = JStr("") THEN <<>> ELSE <<given_name>>)
         \o (IF given_name # JStr("") /\ surname # JStr("") THEN <<JStr(" ")>> ELSE <<>>)
         \o (IF surname = JStr("") THEN <<>> ELSE <<surname>>))

\* the first exception raised by a sequence of evaluated expressions, if any
RECURSIVE FirstRaise(_)
FirstRaise(vals) ==
    IF Len(vals) = 0 THEN JNull
    ELSE IF IsRaise(Head(vals)) THEN Head(vals)
    ELSE FirstRaise(Tail(vals))

\* The try block of step 4: the payment_details dict built from the capture
\* response ([t |-> "ok", v |-> payment_details]), or the exception the
\* block raised.
ExtractPaymentDetails(order, status) ==
    LET purchase_unit ==
            IF IsDict(order)
            THEN Index0(Get(order, "purchase_units", JList(<<EmptyDict>>)))
            ELSE EmptyDict
        capture ==
            IF IsRaise(purchase_unit) THEN purchase_unit
            ELSE IF IsDict(purchase_unit)
            THEN Index0(Get(Get(purchase_unit, "payments", EmptyDict),
                            "captures", JList(<<EmptyDict>>)))
            ELSE EmptyDict
        payer == IF IsDict(order) THEN Get(order, "payer", EmptyDict) ELSE EmptyDict
        orderId == IF IsDict(order) THEN Get(order, "id", JStr("")) ELSE JStr("str(order)")
        captureId == IF IsDict(capture) THEN Get(capture, "id", JStr("")) ELSE JStr("")
        value ==
            IF IsDict(capture)
            THEN Get(Get(capture, "amount", EmptyDict), "value", JStr("0"))
            ELSE IF IsDict(purchase_unit)
            THEN Get(Get(purchase_unit, "amount", EmptyDict), "value", JStr("0"))
            ELSE JStr("0")
        currency ==
            IF IsDict(capture)
            THEN Get(Get(capture, "amount", EmptyDict), "currency_code", JStr("USD"))
            ELSE IF IsDict(purchase_unit)
            THEN Get(Get(purchase_unit, "amount", EmptyDict), "currency_code", JStr("USD"))
            ELSE JStr("USD")
        payerId == IF IsDict(payer) THEN Get(payer, "payer_id", JStr("")) ELSE JStr("")
        email == IF IsDict(payer) THEN Get(payer, "email_address", JStr("")) ELSE JStr("")
        given_name == Get(Get(payer, "name", EmptyDict), "given_name", JStr(""))
        surname == Get(Get(payer, "name", EmptyDict), "surname", JStr(""))
        name ==
            IF IsDict(payer) /\ Truthy(Get(payer, "name", JNull))
            THEN (IF IsRaise(given_name) THEN given_name
                  ELSE IF IsRaise(surname) THEN surname
                  ELSE PayerName(given_name, surname))
            ELSE JStr("")
        createTime ==
            IF IsDict(capture) THEN Get(capture, "create_time", JStr(""))
            ELSE IF IsDict(order) THEN Get(order, "create_time", JStr(""))
            ELSE JStr("")
        updateTime ==
            IF IsDict(capture) THEN Get(capture, "update_time", JStr(""))
            ELSE IF IsDict(order) THEN Get(order, "update_time", JStr(""))
            ELSE JStr("")
        raised_in_block ==
            FirstRaise(<<purchase_unit, capture, payer, orderId, captureId, value,
                         currency, payerId, email, name, createTime, updateTime>>)
    IN  IF IsRaise(raised_in_block) THEN raised_in_block
        ELSE [t |-> "ok",
              v |-> [orderId |-> orderId,
                     captureId |-> captureId,
                     transactionId |-> captureId,
                     status |-> status,
                     amount |-> [value |-> value, currency |-> currency],
                     payer |-> [payerId |-> payerId, email |-> email, name |-> name],
                     createTime |-> createTime,
                     updateTime |-> updateTime,
                     fullResponse |-> order]]

\* the HTTPException the except clause of step 4 raises
ExtractionError(x) ==
    HTTPException(500, <<JStr("Error processing payment details: ")>> \o ExcOf(x).detail,
                  NoHeaders)

\* PaymentDetails(**payment_details) taking the values as they are: the str
\* fields hold a str, the Optional[str] fields a str or None; amount, payer
\* and fullResponse are the dicts step 4 built.
ValidPaymentDetails(pd) ==
    /\ pd.orderId.t = "str"
    /\ pd.captureId.t = "str"
    /\ pd.transactionId.t = "str"
    /\ pd.status.t = "str"
    /\ pd.createTime.t \in {"str", "null"}
    /\ pd.updateTime.t \in {"str", "null"}
    /\ pd.fullResponse.t \in {"dict", "null"}

\* PaymentDetails(**payment_details) under a pydantic release that coerces
\* a number given for a str field to its str (1.x; 2.x rejects it).  No
\* release takes an object or a list for a str field.
ValidWithCoercion(pd) ==
    /\ pd.orderId.t \in {"str", "num"}
    /\ pd.captureId.t \in {"str", "num"}
    /\ pd.transactionId.t \in {"str", "num"}
    /\ pd.status.t \in {"str", "num"}
    /\ pd.createTime.t \in {"str", "num", "null"}
    /\ pd.updateTime.t \in {"str", "num", "null"}
    /\ pd.fullResponse.t \in {"dict", "null"}
\* str(n) of a number stored in a str field
StrOfNum(x) == IF x.t = "num" THEN [t |-> "str_of_num", v |-> x.v] ELSE x
CoercedPaymentDetails(pd) ==
    [pd EXCEPT !.orderId = StrOfNum(@), !.captureId = StrOfNum(@),
               !.transactionId = StrOfNum(@), !.status = StrOfNum(@),
               !.createTime = StrOfNum(@), !.updateTime = StrOfNum(@)]

\* ---------------------------------------------- receipt persister (step 5)
\* the decimal digits of n >= 0, most significant first: str(n)
RECURSIVE Digits(_)
Digits(n) == IF n < 10 THEN <<n>> ELSE Append(Digits(n \div 10), n % 10)

\* s[-k:]
LastChars(s, k) == IF Len(s) <= k THEN s ELSE SubSeq(s, Len(s) - k + 1, Len(s))

\* s.zfill(w)
ZFill(s, w) == IF Len(s) >= w THEN s ELSE [i \in 1..(w - Len(s)) |-> 0] \o s

\* mutant of DonationId: the whole timestamp, without the [-6:] slice
DonationIdWholeTimestamp(now) == [t |-> "donation_id", v |-> Digits(now.sec)]

\* f"SSLF-{str(int(datetime.now().timestamp()))[-6:]}"
DonationId(now) ==
    [t |-> "donation_id", v |-> LastChars(Digits(now.sec), DonationIdDigits)]

\* f"RCP-{datetime.now().year}-{str(int(datetime.now().timestamp() * 1000)
\* % 10000).zfill(4)}": the year of one clock reading and the milliseconds
\* of another.  (1000 * sec + milli) % 10000 is computed from sec % 10, which
\* is the same number and stays inside 32 bits.
ReceiptNumber(yearNow, msNow) ==
    [t |-> "receipt_number",
     v |-> <<yearNow.year>>
           \o ZFill(Digits(((msNow.sec % 10) * 1000 + msNow.milli) % ReceiptModulus),
                    ReceiptDigits)]

\* a key of the record only when the value is truthy
OptionalField(k, val) == IF Truthy(val) THEN k :> val ELSE <<>>

\* the nine columns both records carry
RequiredColumns(dd, pd, donation_id, receipt_number) ==
    [donation_id |-> donation_id,
     amount |-> dd.amount,
     donor_name |-> dd.donorName,
     donation_type |-> dd.donationType,
     payment_id |-> pd.captureId,
     payment_method |-> JStr("PayPal"),
     receipt_number |-> receipt_number,
     status |-> JStr("completed"),
     currency |-> JStr("INR")]

\* donation_data: the required columns and the optional ones that have values
DonationData(dd, pd, donation_id, receipt_number) ==
    RequiredColumns(dd, pd, donation_id, receipt_number)
    @@ OptionalField("user_id", dd.userId)
    @@ OptionalField("donor_address", dd.donorAddress)
    @@ OptionalField("donor_email", dd.donorEmail)

\* paypal_fields
PaypalFields(pd) ==
    ("paypal_order_id" :> pd.orderId)
    @@ ("paypal_capture_id" :> pd.captureId)
    @@ OptionalField("paypal_payer_id", pd.payer.payerId)
    @@ OptionalField("paypal_payment_details", pd.fullResponse)

\* donation_data_with_paypal = {**donation_data, **paypal_fields}
DonationDataWithPaypal(dd, pd, donation_id, receipt_number) ==
    PaypalFields(pd) @@ DonationData(dd, pd, donation_id, receipt_number)

\* minimal_donation_data
MinimalDonationData(dd, pd, donation_id, receipt_number) ==
    RequiredColumns(dd, pd, donation_id, receipt_number)
    @@ OptionalField("user_id", dd.userId)

\* str(insert_error).lower(), word by word
Lower(word) ==
    CASE word = "Column" -> "column"
      [] word = "COLUMN" -> "column"
      [] word = "PGRST204" -> "pgrst204"
      [] word = "Could" -> "could"
      [] OTHER -> word

\* mutant of IsMissingColumnError: the text is matched without .lower() and
\* the PGRST204 code is not looked for
IsMissingColumnErrorCaseSensitive(insert_error) ==
    \E i \in 1..Len(insert_error.detail) : insert_error.detail[i].v = "column"

\* "column" in error_str or "pgrst204" in error_str.lower()
IsMissingColumnError(insert_error) ==
    LET error_str == [i \in 1..Len(insert_error.detail) |-> Lower(insert_error.detail[i].v)]
    IN  \/ \E i \in 1..Len(error_str) : error_str[i] = "column"
        \/ \E i \in 1..Len(error_str) : Lower(error_str[i]) = "pgrst204"

\* the HTTPException raised when the minimal insert fails too
MinimalInsertError(minimal_error) ==
    HTTPException(500,
        <<JStr("Database error: ")>> \o minimal_error.detail
        \o <<JStr(". Please check your database schema.")>>,
        NoHeaders)

\* ------------------------------------------------------------------ inputs
\* list items after the first one, which the handler never reads
Filler(k) == [i \in 1..k |-> EmptyDict]

\* the lists of at most MaxItems items whose first item is drawn from firsts
ListsOf(firsts) ==
    {JList(<<>>)} \cup {JList(<<x>> \o Filler(k)) : x \in firsts, k \in 0..(MaxItems - 1)}

\* request bodies as the client sends them
RawOrderIds == {JNull, JStr(""), JStr("O1")}
DonationInputs ==
    {[t |-> "DonationData", amount |-> JNum(500), donorName |-> JStr("Asha"),
      donationType |-> JStr("general"), userId |-> u, donorEmail |-> c[1],
      donorAddress |-> c[2]] :
        u \in {JNull, JStr(""), JStr("u1")},
        c \in {<<JNull, JNull>>, <<JStr("a@b.com"), JStr("1 Main St")>>}}
\* the requests enumerated: the contact details are varied for the donor
\* with a userId
RawRequests ==
    {q \in [orderId : RawOrderIds, donationData : {JNull} \cup DonationInputs] :
        \/ q.donationData = JNull
        \/ q.donationData.userId = JStr("u1")
        \/ q.donationData.donorEmail = JNull}

\* os.environ: everything set, PayPal secret missing, store URL missing
AllVars ==
    {"PAYPAL_CLIENT_ID", "PAYPAL_SECRET", "SUPABASE_URL", "SUPABASE_SERVICE_ROLE_KEY"}
Environs == {AllVars, AllVars \ {"PAYPAL_SECRET"}, AllVars \ {"SUPABASE_URL"}}

\* what requests.post raises instead of returning a response
RequestFailures ==
    {PyExc(k, m) : k \in {"Timeout", "ConnectionError", "RequestException"},
                   m \in {<<>>, <<JStr("reason")>>}}

\* the exception Response.json() raises on a body that is not JSON
JSONDecodeErrors ==
    {PyExc(k, <<JStr("Expecting value")>>) :
        k \in {"requests.JSONDecodeError", "json.JSONDecodeError"}}

\* the text of a response whose body parses to json
BodyText(json) ==
    IF json \in {EmptyDict, JList(<<>>)} THEN Text(2)
    ELSE IF json = JNull THEN Text(4)
    ELSE Text(MaxBodyLen)

HttpResponse(code, text, json) == [status_code |-> code, text |-> text, json |-> json]

\* responses whose body is not JSON: empty, one character, longest
NonJsonResponses(codes) ==
    {HttpResponse(c, Text(n), NotJSON) : c \in codes, n \in {0, 1, MaxBodyLen}}
JsonResponses(codes, bodies) ==
    {HttpResponse(c, BodyText(b), b) : c \in codes, b \in bodies}

\* a 2xx status
Is2xx(code) == 200 <= code /\ code <= 299

\* Response.ok: the status is not a 4xx or 5xx one
Ok(resp) == ~(400 <= resp.status_code /\ resp.status_code < 600)

\* the token endpoint
TokenStatuses == {200, 401, 503}
TokenBodies ==
    {JList(<<>>), EmptyDict,
     JDict("access_token" :> JStr("tok")), JDict("access_token" :> JStr(""))}
TokenResponses ==
    NonJsonResponses(TokenStatuses) \cup JsonResponses(TokenStatuses, TokenBodies)

\* the capture endpoint: order resources
Amount(value, code) == JDict(("value" :> JStr(value)) @@ ("currency_code" :> JStr(code)))
FullCapture ==
    JDict(("id" :> JStr("CAP1")) @@ ("amount" :> Amount("500.00", "INR"))
          @@ ("create_time" :> JStr("T1")) @@ ("update_time" :> JStr("T2")))
Captures ==
    {EmptyDict, FullCapture, JNull,
     JDict("id" :> JStr("CAP1")),
     JDict("id" :> JNum(7)),
     JDict(("id" :> JStr("CAP1")) @@ ("amount" :> JNull)),
     JDict(("id" :> JStr("CAP1")) @@ ("amount" :> EmptyDict)),
     JDict(("id" :> JStr("CAP1")) @@ ("create_time" :> JNum(7)))}
Payments ==
    {EmptyDict, JNull} \cup {JDict("captures" :> l) : l \in ListsOf(Captures)}
PurchaseUnits ==
    {EmptyDict, JNull, JDict("amount" :> Amount("7.00", "EUR"))}
    \cup {JDict("payments" :> p) : p \in Payments}
    \cup {JDict(("payments" :> p) @@ ("amount" :> Amount("7.00", "EUR"))) : p \in Payments}
FullPayer ==
    JDict(("payer_id" :> JStr("PAYER1")) @@ ("email_address" :> JStr("a@b.com"))
          @@ ("name" :> JDict(("given_name" :> JStr("Asha")) @@ ("surname" :> JStr("K")))))
Payers ==
    {FullPayer, JNull, EmptyDict,
     JDict("payer_id" :> JStr("PAYER1")),
     JDict("name" :> JStr("Bob")),
     JDict("name" :> JDict("given_name" :> JStr("Asha")))}
OrderStatuses == {"COMPLETED", "PENDING"}
FullUnits == JList(<<JDict("payments" :> JDict("captures" :> JList(<<FullCapture>>)))>>)

\* an order resource; Absent leaves the key out
Absent == [t |-> "absent"]
Field(k, val) == IF val = Absent THEN <<>> ELSE k :> val
OrderResource(id, st, units, payer) ==
    JDict(Field("id", id) @@ Field("status", IF st = "absent" THEN Absent ELSE JStr(st))
          @@ Field("purchase_units", units) @@ Field("payer", payer))
OrderBodies ==
    LET sts == OrderStatuses \cup {"absent"}
    IN  {OrderResource(id, st, FullUnits, FullPayer) :
            id \in {Absent, JStr("O1"), JNum(7), EmptyDict}, st \in sts}
        \cup {OrderResource(JStr("O1"), st, u, FullPayer) :
            u \in {Absent, JNull} \cup ListsOf(PurchaseUnits), st \in sts}
        \cup {OrderResource(JStr("O1"), st, FullUnits, p) :
            p \in {Absent} \cup Payers, st \in sts}

\* the capture endpoint: error envelopes
ErrorDetails ==
    {EmptyDict, JStr("x"),
     JDict("issue" :> JStr("ORDER_ALREADY_CAPTURED")),
     JDict(("issue" :> JStr("ORDER_ALREADY_CAPTURED"))
           @@ ("description" :> JStr("Order already captured."))
           @@ ("field" :> JStr("/id")))}
ErrorBodies ==
    {JNull, JList(<<>>), EmptyDict,
     JDict("error" :> JStr("invalid_token")),
     JDict("name" :> JNum(7)),
     JDict(("message" :> JStr("failed")) @@ ("details" :> JNum(5))),
     JDict(("message" :> JStr("failed")) @@ ("details" :> JDict("issue" :> JStr("x"))))}
    \cup {JDict(("name" :> JStr("UNPROCESSABLE_ENTITY")) @@ ("message" :> JStr("failed"))
                @@ ("debug_id" :> JStr("dbg1")) @@ ("details" :> l)) :
            l \in ListsOf(ErrorDetails)}
CaptureStatuses == {200, 302, 404, 500, 503}
CaptureResponses ==
    NonJsonResponses(CaptureStatuses)
    \cup JsonResponses(CaptureStatuses, OrderBodies \cup ErrorBodies)

\* the row store: what create_client and insert(...).execute() raise
ClientErrors == {PyExc("Exception", <<JStr("Invalid"), JStr("URL")>>)}
InsertErrors ==
    {PyExc("APIError", m) :
        m \in {<<JStr("PGRST204")>>,
               <<JStr("Could"), JStr("not"), JStr("find"), JStr("Column")>>,
               <<JStr("column"), JStr("missing")>>,
               <<JStr("duplicate"), JStr("key")>>,
               <<JStr("timeout")>>}}

\* readings of datetime.now(): unix seconds, milliseconds within the second
\* and calendar year
Clock ==
    {[sec |-> 1700000000, milli |-> 7, year |-> 2023],
     [sec |-> 1700000009, milli |-> 999, year |-> 2023]}
\* the same with a reading 1,000,000 seconds after the first
ConcurrentClock == Clock \cup {[sec |-> 1701000000, milli |-> 7, year |-> 2023]}
Before(a, b) == a.sec < b.sec \/ (a.sec = b.sec /\ a.milli <= b.milli)

\* ------------------------------------------------------------------- state
VARIABLES
    environ,          \* names of the environment variables that are set
    create_client,    \* TRUE when the supabase package imported (create_client is not None)
    donations,        \* the rows of table "donations", each with the request that stored it
    pc,               \* per request: the step capture_payment is about to run
    request,          \* per request: the body sent, then the CapturePaymentRequest
    access_token,     \* per request: access_token
    order,            \* per request: order_data, the capture response's JSON
    status,           \* per request: status
    payment_details,  \* per request: payment_details
    donation_id,      \* per request: donation_id
    receipt_number,   \* per request: receipt_number
    now,              \* per request: the three readings of datetime.now() of step 5
    donation_record,  \* per request: donation_record
    error_context,    \* per request: error_context["database_error"]
    calls,            \* per request: the outbound calls made so far, in order
    raised,           \* per request: the exception that ended the request, as first raised
    raised_at,        \* per request: the step that raised it
    response          \* per request: the HTTP response sent

vars ==
    <<environ, create_client, donations, pc, request, access_token, order, status,
      payment_details, donation_id, receipt_number, now, donation_record, error_context,
      calls, raised, raised_at, response>>

config == <<environ, create_client>>
locals ==
    <<access_token, order, status, payment_details, donation_id, receipt_number, now,
      donation_record, error_context>>

\* an entry of calls: the operation, the HTTP status returned (0 when there
\* is none), the row sent (inserts) and the exception the call raised
Call(op, code, row, err) == [op |-> op, code |-> code, row |-> row, error |-> err]

InitRequest(raws) ==
    /\ environ \in Environs
    /\ create_client \in BOOLEAN
    /\ donations = <<>>
    /\ request \in [Reqs -> UNION {raws[r] : r \in Reqs}]
    /\ \A r \in Reqs : request[r] \in raws[r]
    /\ access_token = [r \in Reqs |-> JNull]
    /\ order = [r \in Reqs |-> JNull]
    /\ status = [r \in Reqs |-> JNull]
    /\ payment_details = [r \in Reqs |-> JNull]
    /\ donation_id = [r \in Reqs |-> JNull]
    /\ receipt_number = [r \in Reqs |-> JNull]
    /\ now = [r \in Reqs |-> <<>>]
    /\ donation_record = [r \in Reqs |-> JNull]
    /\ error_context = [r \in Reqs |-> NoExc]
    /\ calls = [r \in Reqs |-> <<>>]
    /\ raised = [r \in Reqs |-> NoExc]
    /\ raised_at = [r \in Reqs |-> "none"]
    /\ response = [r \in Reqs |-> NoResponse]

\* one request (request 1) is sent; request 2 stays unsent
UnsentRequest == [orderId |-> JNull, donationData |-> JNull]
Init ==
    /\ InitRequest([r \in Reqs |-> IF r = 1 THEN RawRequests ELSE {UnsentRequest}])
    /\ pc = [r \in Reqs |-> IF r = 1 THEN "receive" ELSE "off"]

\* the request ends with the error response for exception e, which reached
\* the framework as handled
Fail(r, e, handled) ==
    /\ raised' = [raised EXCEPT ![r] = e]
    /\ raised_at' = [raised_at EXCEPT ![r] = pc[r]]
    /\ response' = [response EXCEPT ![r] = ErrorResponse(handled)]
    /\ pc' = [pc EXCEPT ![r] = "done"]

Goto(r, step) ==
    /\ pc' = [pc EXCEPT ![r] = step]
    /\ UNCHANGED <<raised, raised_at, response>>

\* ----------------------------------------------------------------- actions
\* The framework parses the body into CapturePaymentRequest before the
\* handler runs: orderId is a required str, so a body without it is
\* answered 422 and capture_payment is never called.
RequestValidationError ==
    [status_code |-> 422, detail |-> <<JStr("Field required")>>, headers |-> NoHeaders,
     success |-> FALSE, payment |-> NoPayment, donation |-> NoDonation, message |-> ""]
ReceiveRequest(r) ==
    /\ pc[r] = "receive"
    /\ IF request[r].orderId.t # "str"
       THEN /\ response' = [response EXCEPT ![r] = RequestValidationError]
            /\ pc' = [pc EXCEPT ![r] = "done"]
            /\ UNCHANGED <<raised, raised_at>>
       ELSE Goto(r, "validate")
    /\ UNCHANGED <<config, donations, request, locals, calls>>

\* _get_paypal_client(): the ValueError it raises, or NoExc
GetPaypalClient ==
    IF {"PAYPAL_CLIENT_ID", "PAYPAL_SECRET"} \subseteq environ THEN NoExc
    ELSE PyExc("ValueError", <<JStr("PayPal credentials not configured")>>)

\* mutant of ValidationError: the configuration checks run before the
\* order id check
ValidationErrorConfigFirst(req) ==
    IF ~create_client
    THEN HTTPException(500, <<JStr("Server configuration error: Supabase package not installed")>>,
                       NoHeaders)
    ELSE IF GetPaypalClient # NoExc
    THEN HTTPException(500, <<JStr("PayPal configuration error: ")>> \o GetPaypalClient.detail,
                       NoHeaders)
    ELSE IF ~Truthy(req.orderId)
    THEN HTTPException(400, <<JStr("Order ID is required")>>, NoHeaders)
    ELSE NoExc

\* The checks before the first call: order id, supabase package, step 1.
ValidationError(req) ==
    IF ~Truthy(req.orderId)
    THEN HTTPException(400, <<JStr("Order ID is required")>>, NoHeaders)
    ELSE IF ~create_client
    THEN HTTPException(500, <<JStr("Server configuration error: Supabase package not installed")>>,
                       NoHeaders)
    ELSE IF GetPaypalClient # NoExc
    THEN HTTPException(500, <<JStr("PayPal configuration error: ")>> \o GetPaypalClient.detail,
                       NoHeaders)
    ELSE NoExc
Validate(r) ==
    /\ pc[r] = "validate"
    /\ LET e == ValidationError(request[r])
       IN  IF e # NoExc THEN Fail(r, e, OuterHandler(e)) ELSE Goto(r, "get_token")
    /\ UNCHANGED <<config, donations, request, locals, calls>>

\* The exception the token call and the reading of its response raise, or
\* NoExc when an access token was obtained.
TokenCallError(e) ==
    CASE e.kind = "Timeout" ->
            HTTPException(500,
                <<JStr("PayPal API timeout: Failed to get access token (request "),
                  JStr("timed out after 10 seconds"), JStr(")")>>, NoHeaders)
      [] e.kind = "ConnectionError" ->
            HTTPException(500,
                <<JStr("PayPal API connection error: Unable to connect to PayPal servers. ")>>
                \o (IF e.detail # <<>> THEN e.detail
                    ELSE <<JStr("Check your internet connection and PayPal API status.")>>),
                NoHeaders)
      [] OTHER ->
            HTTPException(500,
                <<JStr("PayPal API request error: ")>>
                \o (IF e.detail # <<>> THEN e.detail
                    ELSE <<JStr("Failed to communicate with PayPal API")>>),
                NoHeaders)
\* mutant of TokenResponseError: no check that access_token is there
TokenResponseErrorNoTokenCheck(resp) ==
    IF ~Ok(resp)
    THEN HTTPException(500, <<JStr("Failed to get PayPal access token")>>, NoHeaders)
    ELSE IF resp.json = NotJSON
    THEN HTTPException(500, <<JStr("Invalid PayPal auth response: ")>>, NoHeaders)
    ELSE IF IsRaise(Get(resp.json, "access_token", JNull))
    THEN ExcOf(Get(resp.json, "access_token", JNull))
    ELSE NoExc
TokenResponseError(resp) ==
    IF ~Ok(resp)
    THEN HTTPException(500,
            <<JStr("Failed to get PayPal access token (HTTP "), JNum(resp.status_code),
              JStr("): "),
              IF Truthy(resp.text) THEN Slice(resp.text, ErrorTextChars)
              ELSE JStr("No error details provided")>>, NoHeaders)
    ELSE IF resp.json = NotJSON
    THEN HTTPException(500, <<JStr("Invalid PayPal auth response: "), JStr("Expecting value")>>,
                       NoHeaders)
    ELSE IF IsRaise(Get(resp.json, "access_token", JNull))
    THEN ExcOf(Get(resp.json, "access_token", JNull))
    ELSE IF ~Truthy(Get(resp.json, "access_token", JNull))
    THEN HTTPException(500, <<JStr("PayPal access token not found in response")>>, NoHeaders)
    ELSE NoExc

\* Step 2, first half: POST /v1/oauth2/token, which raises one of failures
\* or returns one of responses.
GetAccessTokenFrom(r, failures, responses) ==
    /\ pc[r] = "get_token"
    /\ \/ \E f \in failures :
            /\ calls' = [calls EXCEPT ![r] = Append(@, Call("token", 0, <<>>, f))]
            /\ Fail(r, TokenCallError(f), OuterHandler(CaptureBlockHandler(TokenCallError(f))))
            /\ UNCHANGED access_token
       \/ \E resp \in responses :
            /\ calls' = [calls EXCEPT ![r] = Append(@, Call("token", resp.status_code, <<>>, NoExc))]
            /\ LET e == TokenResponseError(resp)
               IN  IF e # NoExc
                   THEN /\ Fail(r, e, OuterHandler(CaptureBlockHandler(e)))
                        /\ UNCHANGED access_token
                   ELSE /\ access_token' =
                               [access_token EXCEPT ![r] = Get(resp.json, "access_token", JNull)]
                        /\ Goto(r, "capture_order")
    /\ UNCHANGED <<config, donations, request, order, status, payment_details, donation_id,
                   receipt_number, now, donation_record, error_context>>

\* mutant of CaptureCallError: no "except requests.exceptions.Timeout"
\* clause around the capture call, so the Timeout reaches the handlers of
\* the enclosing block
CaptureCallErrorNoTimeoutClause(e) ==
    CASE e.kind = "Timeout" -> e
      [] e.kind = "ConnectionError" ->
            HTTPException(500,
                <<JStr("PayPal API connection error: Unable to connect to PayPal servers. ")>>
                \o (IF e.detail # <<>> THEN e.detail
                    ELSE <<JStr("Check your internet connection and PayPal API status.")>>),
                NoHeaders)
      [] OTHER ->
            HTTPException(500,
                <<JStr("PayPal API request error: ")>>
                \o (IF e.detail # <<>> THEN e.detail
                    ELSE <<JStr("Failed to communicate with PayPal API")>>),
                NoHeaders)

GetAccessToken(r) == GetAccessTokenFrom(r, RequestFailures, TokenResponses)

\* the HTTPException raised when requests.post of the capture call fails
CaptureCallError(e) ==
    CASE e.kind = "Timeout" ->
            HTTPException(500,
                <<JStr("PayPal API timeout: Payment capture request "),
                  JStr("timed out after 30 seconds")>>, NoHeaders)
      [] e.kind = "ConnectionError" ->
            HTTPException(500,
                <<JStr("PayPal API connection error: Unable to connect to PayPal servers. ")>>
                \o (IF e.detail # <<>> THEN e.detail
                    ELSE <<JStr("Check your internet connection and PayPal API status.")>>),
                NoHeaders)
      [] OTHER ->
            HTTPException(500,
                <<JStr("PayPal API request error: ")>>
                \o (IF e.detail # <<>> THEN e.detail
                    ELSE <<JStr("Failed to communicate with PayPal API")>>),
                NoHeaders)

\* mutant of StatusOf: a response without status reads as "COMPLETED"
StatusOfDefaultCompleted(order_data) == Get(order_data, "status", JStr("COMPLETED"))

\* order_data.get("status", "UNKNOWN")
StatusOf(order_data) == Get(order_data, "status", JStr("UNKNOWN"))

\* Step 2, second half: POST /v2/checkout/orders/{orderId}/capture, which
\* raises one of failures or returns one of responses; the error mapping of
\* a response that is not ok, and the reading of one that is.
CaptureOrderFrom(r, failures, responses) ==
    /\ pc[r] = "capture_order"
    /\ \/ \E f \in failures :
            /\ calls' = [calls EXCEPT ![r] = Append(@, Call("capture", 0, <<>>, f))]
            /\ Fail(r, CaptureCallError(f),
                    OuterHandler(CaptureBlockHandler(CaptureCallError(f))))
            /\ UNCHANGED <<order, status>>
       \/ \E resp \in responses, decode_error \in JSONDecodeErrors :
            /\ calls' = [calls EXCEPT ![r] = Append(@, Call("capture", resp.status_code, <<>>, NoExc))]
            /\ LET e == IF ~Ok(resp) THEN CaptureError(resp)
                        ELSE IF resp.json = NotJSON THEN decode_error
                        ELSE IF IsRaise(StatusOf(resp.json)) THEN ExcOf(StatusOf(resp.json))
                        ELSE NoExc
               IN  IF e # NoExc
                   THEN /\ Fail(r, e, OuterHandler(CaptureBlockHandler(e)))
                        /\ UNCHANGED <<order, status>>
                   ELSE /\ order' = [order EXCEPT ![r] = resp.json]
                        /\ status' = [status EXCEPT ![r] = StatusOf(resp.json)]
                        /\ Goto(r, "verify_status")
    /\ UNCHANGED <<config, donations, request, access_token, payment_details, donation_id,
                   receipt_number, now, donation_record, error_context>>

CaptureOrder(r) == CaptureOrderFrom(r, RequestFailures, CaptureResponses)

\* x.id on a value decoded from JSON: dicts, lists, strings, numbers and
\* None have no attribute "id"
AttrId(x) == PyRaise("AttributeError")

\* Step 3 for a status that is not "COMPLETED": the warning is formatted
\* with order.id first, then the HTTPException is raised.
StatusError(order_data, st) ==
    IF IsRaise(AttrId(order_data)) THEN ExcOf(AttrId(order_data))
    ELSE HTTPException(400, <<JStr("Payment not completed. Status: "), st>>,
                       {<<"X-Payment-Status", st>>})

\* Step 3: verify payment status.
VerifyStatus(r) ==
    /\ pc[r] = "verify_status"
    /\ IF status[r] # JStr("COMPLETED")
       THEN Fail(r, StatusError(order[r], status[r]),
                 OuterHandler(StatusError(order[r], status[r])))
       ELSE Goto(r, "extract_details")
    /\ UNCHANGED <<config, donations, request, locals, calls>>

\* Step 4: extract payment details.
ExtractDetails(r) ==
    /\ pc[r] = "extract_details"
    /\ LET x == ExtractPaymentDetails(order[r], status[r])
       IN  IF IsRaise(x)
           THEN /\ Fail(r, ExtractionError(x), OuterHandler(ExtractionError(x)))
                /\ UNCHANGED payment_details
           ELSE /\ payment_details' = [payment_details EXCEPT ![r] = x.v]
                /\ Goto(r, "store_donation")
    /\ UNCHANGED <<config, donations, request, access_token, order, status, donation_id,
                   receipt_number, now, donation_record, error_context, calls>>

\* mutant of PersistHandler: HTTPException is re-raised, as the other
\* handlers of capture_payment do
PersistHandlerReraisesHTTP(e) == IF e.kind = "HTTPException" THEN e ELSE NoExc

\* The except clause that closes the try block of step 5: whatever the
\* block raised is logged and dropped, nothing propagates.
PersistHandler(e) == NoExc

\* step 5 ends with exception e raised inside its try block
PersistFailed(r, e) ==
    IF PersistHandler(e) = NoExc
    THEN /\ error_context' = [error_context EXCEPT ![r] = e]
         /\ Goto(r, "respond")
    ELSE /\ Fail(r, e, OuterHandler(PersistHandler(e)))
         /\ UNCHANGED error_context

\* _get_supabase_client(): the ValueError it raises before create_client
GetSupabaseClient ==
    IF ~create_client
    THEN PyExc("ValueError", <<JStr("Supabase package not installed")>>)
    ELSE IF ~("SUPABASE_URL" \in environ
              /\ {"SUPABASE_SERVICE_ROLE_KEY", "SUPABASE_ANON_KEY"} \cap environ # {})
    THEN PyExc("ValueError", <<JStr("Supabase credentials not configured")>>)
    ELSE NoExc

\* Step 5, up to the first insert: skipped without donationData; otherwise
\* the store client is created and the identifiers are generated from three
\* successive readings of the clock.
StoreDonationFrom(r, clock) ==
    /\ pc[r] = "store_donation"
    /\ IF ~Truthy(request[r].donationData)
       THEN /\ Goto(r, "respond")
            /\ UNCHANGED <<donation_id, receipt_number, now, error_context>>
       ELSE IF GetSupabaseClient # NoExc
       THEN /\ PersistFailed(r, GetSupabaseClient)
            /\ UNCHANGED <<donation_id, receipt_number, now>>
       ELSE \/ \E e \in ClientErrors :
                 /\ PersistFailed(r, e)
                 /\ UNCHANGED <<donation_id, receipt_number, now>>
            \/ \E t1 \in clock, t2 \in clock, t3 \in clock :
                 /\ Before(t1, t2) /\ Before(t2, t3)
                 /\ donation_id' = [donation_id EXCEPT ![r] = DonationId(t1)]
                 /\ receipt_number' = [receipt_number EXCEPT ![r] = ReceiptNumber(t2, t3)]
                 /\ now' = [now EXCEPT ![r] = <<t1, t2, t3>>]
                 /\ Goto(r, "insert_full")
                 /\ UNCHANGED error_context
    /\ UNCHANGED <<config, donations, request, access_token, order, status, payment_details,
                   donation_record, calls>>

StoreDonation(r) == StoreDonationFrom(r, Clock)

\* result.data[0] when the store returned rows, else None
DonationRecord(data) == IF Len(data) > 0 THEN JDict(data[1]) ELSE JNull

\* mutant of Inserted: after a full insert that succeeded the handler goes
\* on to the minimal insert
InsertedThenFallback(r, op, row) ==
    \E data \in {<<>>, <<row>>} :
        /\ calls' = [calls EXCEPT ![r] = Append(@, Call(op, 0, row, NoExc))]
        /\ donations' = Append(donations, [req |-> r, row |-> row])
        /\ donation_record' = [donation_record EXCEPT ![r] = DonationRecord(data)]
        /\ Goto(r, IF op = "insert_full" THEN "insert_minimal" ELSE "respond")
        /\ UNCHANGED error_context

\* supabase.table("donations").insert(row).execute() succeeded: the row is
\* stored, and the store returns it or returns no rows
Inserted(r, op, row) ==
    \E data \in {<<>>, <<row>>} :
        /\ calls' = [calls EXCEPT ![r] = Append(@, Call(op, 0, row, NoExc))]
        /\ donations' = Append(donations, [req |-> r, row |-> row])
        /\ donation_record' = [donation_record EXCEPT ![r] = DonationRecord(data)]
        /\ Goto(r, "respond")
        /\ UNCHANGED error_context

\* Step 5, first insert: the full record; a missing-column error leads to
\* the minimal insert, any other error ends step 5.
InsertFullFrom(r, errors) ==
    /\ pc[r] = "insert_full"
    /\ LET row == DonationDataWithPaypal(request[r].donationData, payment_details[r],
                                         donation_id[r], receipt_number[r])
       IN  \/ Inserted(r, "insert_full", row)
           \/ \E insert_error \in errors :
                /\ calls' = [calls EXCEPT ![r] = Append(@, Call("insert_full", 0, row, insert_error))]
                /\ IF IsMissingColumnError(insert_error)
                   THEN /\ Goto(r, "insert_minimal")
                        /\ UNCHANGED error_context
                   ELSE PersistFailed(r, insert_error)
                /\ UNCHANGED <<donations, donation_record>>
    /\ UNCHANGED <<config, request, access_token, order, status, payment_details, donation_id,
                   receipt_number, now>>

InsertFull(r) == InsertFullFrom(r, InsertErrors)

\* Step 5, second insert: the minimal record.
InsertMinimalFrom(r, errors) ==
    /\ pc[r] = "insert_minimal"
    /\ LET row == MinimalDonationData(request[r].donationData, payment_details[r],
                                      donation_id[r], receipt_number[r])
       IN  \/ Inserted(r, "insert_minimal", row)
           \/ \E minimal_error \in errors :
                /\ calls' = [calls EXCEPT ![r] =
                                Append(@, Call("insert_minimal", 0, row, minimal_error))]
                /\ PersistFailed(r, MinimalInsertError(minimal_error))
                /\ UNCHANGED <<donations, donation_record>>
    /\ UNCHANGED <<config, request, access_token, order, status, payment_details, donation_id,
                   receipt_number, now>>

InsertMinimal(r) == InsertMinimalFrom(r, InsertErrors)

\* the ValidationError of PaymentDetails(**payment_details)
PaymentDetailsError == PyExc("ValidationError", <<JStr("validation error for PaymentDetails")>>)

SuccessResponse(pd, record) ==
    [status_code |-> 200, detail |-> <<>>, headers |-> NoHeaders, success |-> TRUE,
     payment |-> pd, donation |-> record, message |-> "Payment captured successfully"]

\* Step 6: build and return CapturePaymentResponse.  Whether a number in a
\* str field of payment_details is coerced or refused depends on the
\* pydantic release installed: both outcomes are possible.
Respond(r) ==
    /\ pc[r] = "respond"
    /\ IF ValidPaymentDetails(payment_details[r])
       THEN /\ response' = [response EXCEPT ![r] =
                               SuccessResponse(payment_details[r], donation_record[r])]
            /\ pc' = [pc EXCEPT ![r] = "done"]
            /\ UNCHANGED <<raised, raised_at>>
       ELSE \/ Fail(r, PaymentDetailsError, OuterHandler(PaymentDetailsError))
            \/ /\ ValidWithCoercion(payment_details[r])
               /\ response' = [response EXCEPT ![r] =
                                  SuccessResponse(CoercedPaymentDetails(payment_details[r]),
                                                  donation_record[r])]
               /\ pc' = [pc EXCEPT ![r] = "done"]
               /\ UNCHANGED <<raised, raised_at>>
    /\ UNCHANGED <<config, donations, request, locals, calls>>

Next ==
    \E r \in Reqs :
        \/ ReceiveRequest(r)
        \/ Validate(r)
        \/ GetAccessToken(r)
        \/ CaptureOrder(r)
        \/ VerifyStatus(r)
        \/ ExtractDetails(r)
        \/ StoreDonation(r)
        \/ InsertFull(r)
        \/ InsertMinimal(r)
        \/ Respond(r)

Spec == Init /\ [][Next]_vars

\* ------------------------------------------------- two concurrent requests
\* Two requests with the same donationData, for one order or for two, are
\* handled at the same time.  capture_payment shares no mutable state
\* between requests (error_context and every other name are locals), so the
\* requests meet only at the provider and in the donations table; each call
\* is one step.
ConcurrentOrderIds == {JStr("O1"), JStr("O2")}
ConcurrentRequests ==
    {[q EXCEPT !.orderId = o] :
        q \in {x \in RawRequests : x.donationData # JNull /\ x.donationData.userId = JNull},
        o \in ConcurrentOrderIds}
InitConcurrent ==
    /\ InitRequest([r \in Reqs |-> ConcurrentRequests])
    /\ request[1].orderId = JStr("O1")
    /\ request[1].donationData = request[2].donationData
    /\ environ = AllVars
    /\ create_client
    /\ pc = [r \in Reqs |-> "receive"]

\* the answers enumerated for two requests: one token or a refusal; the
\* order resource with every field, with each status or none, under the
\* statuses the handler accepts; the provider's error envelope under every
\* status; one failure per call
ConcurrentFailures == {PyExc("Timeout", <<>>)}
ConcurrentTokenResponses ==
    JsonResponses({200, 401}, {JDict("access_token" :> JStr("tok"))})
AlreadyCaptured ==
    JDict(("name" :> JStr("UNPROCESSABLE_ENTITY")) @@ ("message" :> JStr("failed"))
          @@ ("details" :> JList(<<JDict("issue" :> JStr("ORDER_ALREADY_CAPTURED"))>>)))
ConcurrentCaptureResponses ==
    JsonResponses({200, 302},
                  {OrderResource(JStr("O1"), st, FullUnits, FullPayer) :
                        st \in OrderStatuses \cup {"absent"}})
    \cup JsonResponses({200, 302, 404, 503}, {AlreadyCaptured})
ConcurrentInsertErrors ==
    {PyExc("APIError", m) : m \in {<<JStr("PGRST204")>>, <<JStr("duplicate"), JStr("key")>>}}

\* the provider has returned the order of request r as COMPLETED
CapturedFor(r) == order[r] # JNull /\ Get(order[r], "status", JNull) = JStr("COMPLETED")

\* The provider's side of a capture call (assumed, not code of this
\* service): an order is returned COMPLETED at most once; a capture of an
\* order already captured is rejected with a status that is not 2xx.
ProviderResponses(r) ==
    IF \E o \in Reqs \ {r} : request[o].orderId = request[r].orderId /\ CapturedFor(o)
    THEN {resp \in ConcurrentCaptureResponses :
            /\ ~Is2xx(resp.status_code)
            /\ Get(resp.json, "status", JNull) # JStr("COMPLETED")}
    ELSE ConcurrentCaptureResponses

NextConcurrent ==
    \E r \in Reqs :
        \/ ReceiveRequest(r)
        \/ Validate(r)
        \/ GetAccessTokenFrom(r, ConcurrentFailures, ConcurrentTokenResponses)
        \/ CaptureOrderFrom(r, ConcurrentFailures, ProviderResponses(r))
        \/ VerifyStatus(r)
        \/ ExtractDetails(r)
        \/ StoreDonationFrom(r, ConcurrentClock)
        \/ InsertFullFrom(r, ConcurrentInsertErrors)
        \/ InsertMinimalFrom(r, ConcurrentInsertErrors)
        \/ Respond(r)

SpecConcurrent == InitConcurrent /\ [][NextConcurrent]_vars

TypeOK ==
    \A r \in Reqs :
        pc[r] \in {"off", "receive", "validate", "get_token", "capture_order", "verify_status",
                   "extract_details", "store_donation", "insert_full", "insert_minimal",
                   "respond", "done"}

\* ================================================================== claims
\* the finished requests
Done(r) == pc[r] = "done"

\* the entries of calls[r] for operation op
CallsOf(r, op) == {i \in 1..Len(calls[r]) : calls[r][i].op = op}

\* the token and capture calls of r both returned a 2xx response
BothCallsReturned2xx(r) ==
    /\ Len(calls[r]) >= 2
    /\ calls[r][1].op = "token" /\ Is2xx(calls[r][1].code)
    /\ calls[r][2].op = "capture" /\ Is2xx(calls[r][2].code)

\* the rows request r stored
RowsOf(r) == {i \in 1..Len(donations) : donations[i].req = r}

\* C1: a request whose token and capture calls both returned 2xx and whose
\* order status is not "COMPLETED" (a missing status reads "UNKNOWN") is
\* answered 400, with the status in the detail message and in the
\* X-Payment-Status header.
C1_NotCompletedIs400 ==
    \A r \in Reqs :
        (Done(r) /\ BothCallsReturned2xx(r) /\ status[r] # JNull
         /\ status[r] # JStr("COMPLETED"))
        => /\ response[r].status_code = 400
           /\ Contains(response[r].detail, status[r])
           /\ <<"X-Payment-Status", status[r]>> \in response[r].headers

\* C2: a request with donationData whose capture was COMPLETED and whose
\* extracted details build a PaymentDetails, and for which no store operation
\* succeeded, is answered with the success response: success = true, payment
\* the extracted details, donation null.
C2_PersistenceFailureStillSuccess ==
    \A r \in Reqs :
        (Done(r) /\ Truthy(request[r].donationData) /\ payment_details[r] # JNull
         /\ ValidPaymentDetails(payment_details[r]) /\ RowsOf(r) = {})
        => /\ response[r].status_code = 200
           /\ response[r].success
           /\ response[r].payment = payment_details[r]
           /\ response[r].donation = JNull

\* C2 witness: each way the store can fail has ended in a success response:
\* here the minimal insert, after the full insert, raised.
C2_Witness ==
    \E r \in Reqs :
        /\ Done(r) /\ response[r].success /\ response[r].donation = JNull
        /\ CallsOf(r, "insert_minimal") # {}
        /\ \A i \in CallsOf(r, "insert_minimal") : calls[r][i].error # NoExc

\* the text of a store error names a column, in any case, or the code pgrst204
MentionsMissingColumn(err) ==
    \E j \in 1..Len(err.detail) :
        err.detail[j].v \in {"column", "Column", "COLUMN", "pgrst204", "PGRST204"}
FullInsertFailedOnColumn(r) ==
    \E i \in CallsOf(r, "insert_full") : MentionsMissingColumn(calls[r][i].error)
PaypalAndContactColumns ==
    {"paypal_order_id", "paypal_capture_id", "paypal_payer_id", "paypal_payment_details",
     "donor_address", "donor_email"}

\* C3 as stated: after a full insert that failed on a missing column, the
\* minimal insert is attempted exactly once, its record has none of the
\* PayPal and contact columns, and it has user_id whenever the request
\* supplied a userId.
C3_Original ==
    \A r \in Reqs :
        (Done(r) /\ FullInsertFailedOnColumn(r))
        => /\ Cardinality(CallsOf(r, "insert_minimal")) = 1
           /\ \A i \in CallsOf(r, "insert_minimal") :
                /\ DOMAIN calls[r][i].row \cap PaypalAndContactColumns = {}
                /\ request[r].donationData.userId # JNull
                   => "user_id" \in DOMAIN calls[r][i].row

\* C3 amended: the same, with user_id in the minimal record exactly when the
\* request supplied a non-empty userId.
C3_MinimalInsertOnce ==
    \A r \in Reqs :
        (Done(r) /\ FullInsertFailedOnColumn(r))
        => /\ Cardinality(CallsOf(r, "insert_minimal")) = 1
           /\ \A i \in CallsOf(r, "insert_minimal") :
                /\ DOMAIN calls[r][i].row \cap PaypalAndContactColumns = {}
                /\ "user_id" \in DOMAIN calls[r][i].row
                   <=> request[r].donationData.userId \notin {JNull, JStr("")}

\* C3 witness: a minimal insert that followed an upper-case PGRST204 error
\* carried the user_id of the request and was stored.
C3_Witness ==
    \E r \in Reqs :
        /\ Done(r)
        /\ \E i \in CallsOf(r, "insert_full") : calls[r][i].error.detail = <<JStr("PGRST204")>>
        /\ \E i \in CallsOf(r, "insert_minimal") :
                /\ calls[r][i].error = NoExc
                /\ "user_id" \in DOMAIN calls[r][i].row
        /\ RowsOf(r) # {}

\* C4 as stated: a request without orderId, or with the empty string, is
\* answered 400 "Order ID is required".
C4_Original ==
    \A r \in Reqs :
        (Done(r) /\ request[r].orderId \in {JNull, JStr("")})
        => /\ response[r].status_code = 400
           /\ Contains(response[r].detail, JStr("Order ID is required"))

\* C4 amended: a request whose orderId is the empty string is answered 400
\* "Order ID is required"; a request without orderId is answered 422 by the
\* request model and capture_payment does not run.
C4_EmptyOrderIdIs400 ==
    \A r \in Reqs :
        /\ (Done(r) /\ request[r].orderId = JStr(""))
           => /\ response[r].status_code = 400
              /\ Contains(response[r].detail, JStr("Order ID is required"))
        /\ (Done(r) /\ request[r].orderId = JNull)
           => /\ response[r].status_code = 422
              /\ raised_at[r] = "none"

\* C4 witness: an empty order id was refused although the configuration is
\* incomplete.
C4_Witness ==
    \E r \in Reqs :
        /\ Done(r) /\ request[r].orderId = JStr("") /\ response[r].status_code = 400
        /\ ~create_client

\* C5, for the statuses the handler maps as capture errors (4xx and 5xx): a
\* capture response with such a status s, whatever its body, ends the
\* request with status min(s, 500).
C5_CaptureErrorIsCappedStatus ==
    \A r \in Reqs :
        (Done(r) /\ Len(calls[r]) >= 2 /\ calls[r][2].op = "capture"
         /\ calls[r][2].error = NoExc /\ calls[r][2].code >= 400)
        => response[r].status_code =
               (IF calls[r][2].code <= 500 THEN calls[r][2].code ELSE 500)

\* the request ended on an exception no step raised as an HTTPException
EndedOnUntypedError(r) == Done(r) /\ raised[r].kind \notin {"none", "HTTPException"}
IsInternalError(resp) ==
    /\ resp.status_code = 500
    /\ Len(resp.detail) >= 1 /\ resp.detail[1] = JStr("Internal server error: ")

C7_TypedErrorPassesThrough ==
    \A r \in Reqs :
        (Done(r) /\ raised[r].kind = "HTTPException")
        => /\ response[r].status_code = raised[r].status_code
           /\ response[r].detail = raised[r].detail
           /\ response[r].headers = raised[r].headers

\* C7 witness: the capped 404 of a capture error reached the client as raised.
C7_Witness ==
    \E r \in Reqs :
        /\ Done(r) /\ raised[r].kind = "HTTPException" /\ raised_at[r] = "capture_order"
        /\ raised[r].status_code = 404 /\ response[r].status_code = 404

\* C8: for a COMPLETED order object, step 4 never raises: once step 4 has
\* run, payment_details is set and the request did not fail there, and an
\* order without purchase units has amount value "0" and currency "USD".
C8_ExtractionIsTotal ==
    \A r \in Reqs :
        (order[r] # JNull /\ status[r] = JStr("COMPLETED")
         /\ pc[r] \notin {"verify_status", "extract_details"})
        => /\ raised_at[r] # "extract_details"
           /\ payment_details[r] # JNull
           /\ "purchase_units" \notin DOMAIN order[r].v
              => payment_details[r].amount = [value |-> JStr("0"), currency |-> JStr("USD")]

\* the place of an outbound call in the handler
OpRank(op) ==
    CASE op = "token" -> 1
      [] op = "capture" -> 2
      [] op = "insert_full" -> 3
      [] op = "insert_minimal" -> 4
\* the calls of r were made in the handler's order, each at most once
CallsInOrder(r) ==
    \A i, j \in 1..Len(calls[r]) :
        i < j => OpRank(calls[r][i].op) < OpRank(calls[r][j].op)
\* each call of r was made with its prerequisites; okCodes are the capture
\* statuses after which an insert may be made
CallsHavePrerequisites(r, okCodes) ==
    /\ \A i \in CallsOf(r, "capture") :
            /\ \E j \in CallsOf(r, "token") : j < i /\ calls[r][j].error = NoExc
            /\ access_token[r] \notin {JNull, JStr("")}
    /\ \A i \in CallsOf(r, "insert_full") :
            /\ \E j \in CallsOf(r, "capture") :
                    j < i /\ calls[r][j].error = NoExc /\ calls[r][j].code \in okCodes
            /\ status[r] = JStr("COMPLETED")
            /\ payment_details[r] # JNull
    /\ \A i \in CallsOf(r, "insert_minimal") :
            \E j \in CallsOf(r, "insert_full") :
                j < i /\ MentionsMissingColumn(calls[r][j].error)
    /\ (request[r].orderId \in {JNull, JStr("")}
        \/ ~({"PAYPAL_CLIENT_ID", "PAYPAL_SECRET"} \subseteq environ))
       => calls[r] = <<>>

C10_AtMostOneDonationRecord ==
    /\ [](\A r \in Reqs :
            /\ Cardinality(RowsOf(r)) <= 1
            /\ RowsOf(r) # {}
               => request[r].donationData # JNull /\ status[r] = JStr("COMPLETED"))
    /\ [][/\ Len(donations') >= Len(donations)
          /\ SubSeq(donations', 1, Len(donations)) = donations]_vars

\* C10 witness: a row was stored by the minimal insert after the full insert
\* failed.
C10_Witness ==
    \E r \in Reqs :
        /\ Cardinality(RowsOf(r)) = 1
        /\ \E i \in CallsOf(r, "insert_full") : calls[r][i].error # NoExc
        /\ \E i \in CallsOf(r, "insert_minimal") : calls[r][i].error = NoExc

\* the calls of r that timed out
TimedOut(r, op) == {i \in CallsOf(r, op) : calls[r][i].error.kind = "Timeout"}

\* C11: a token call that timed out is answered 500 with "timed out after
\* 10 seconds" and no capture call is made; a capture call that timed out is
\* answered 500 with "timed out after 30 seconds" and no insert is attempted.
C11_TimeoutMapping ==
    \A r \in Reqs :
        /\ TimedOut(r, "token") # {}
           => /\ response[r].status_code = 500
              /\ Contains(response[r].detail, JStr("timed out after 10 seconds"))
              /\ Len(calls[r]) = 1
        /\ TimedOut(r, "capture") # {}
           => /\ response[r].status_code = 500
              /\ Contains(response[r].detail, JStr("timed out after 30 seconds"))
              /\ Len(calls[r]) = 2 /\ calls[r][1].op = "token"

\* C11 witness: a request with donationData obtained a token, its capture
\* call timed out and it was answered 500.
C11_Witness ==
    \E r \in Reqs :
        /\ Done(r) /\ TimedOut(r, "capture") # {}
        /\ Truthy(request[r].donationData)
        /\ response[r].status_code = 500

\* the first purchase unit of an order and its first capture, {} when the
\* list is not there
FirstPurchaseUnit(o) == Index0(Get(o, "purchase_units", JList(<<EmptyDict>>)))
FirstCapture(o) ==
    IF IsDict(FirstPurchaseUnit(o))
    THEN Index0(Get(Get(FirstPurchaseUnit(o), "payments", EmptyDict),
                    "captures", JList(<<EmptyDict>>)))
    ELSE EmptyDict
\* the amount object of x, {} when x has none
AmountOf(x) ==
    IF IsDict(x) /\ IsDict(Get(x, "amount", EmptyDict)) THEN Get(x, "amount", EmptyDict)
    ELSE EmptyDict
\* field k of the capture's amount, else of the purchase unit's amount, else d
AmountFallback(o, k, d) ==
    IF k \in DOMAIN AmountOf(FirstCapture(o)).v THEN AmountOf(FirstCapture(o)).v[k]
    ELSE IF k \in DOMAIN AmountOf(FirstPurchaseUnit(o)).v
    THEN AmountOf(FirstPurchaseUnit(o)).v[k]
    ELSE d

\* C12: in the extracted payment details amount.value is the capture's
\* amount.value when present, else the purchase unit's amount.value when
\* present, else "0", and amount.currency likewise falls back from the
\* capture's currency_code to the purchase unit's to "USD".
C12_AmountFallsBackToPurchaseUnit ==
    \A r \in Reqs :
        payment_details[r] # JNull
        => /\ payment_details[r].amount.value = AmountFallback(order[r], "value", JStr("0"))
           /\ payment_details[r].amount.currency
                = AmountFallback(order[r], "currency_code", JStr("USD"))

\* C13: a request that inserted a donation row ends with the 200 success
\* response, never with an error response.
C13_NoErrorAfterInsert ==
    \A r \in Reqs :
        (Done(r) /\ RowsOf(r) # {})
        => response[r].status_code = 200 /\ response[r].success

\* the requests answered with success = true
Succeeded == {r \in Reqs : Done(r) /\ response[r].success}

\* C14: of two concurrent requests with the same orderId and donationData,
\* when the provider returns a COMPLETED capture for an order at most once
\* and rejects the second capture with a non-2xx response, at most one
\* donation record is stored and at most one request returns success = true.
C14_OneRecordPerOrder ==
    request[1] = request[2]
    => /\ Len(donations) <= 1
       /\ Cardinality(Succeeded) <= 1

\* C14 witness: both requests finished; the one whose capture was COMPLETED
\* stored its record and succeeded, the other made its capture call
\* afterwards, was rejected with 404 and failed.
C14_Witness ==
    \E r \in Reqs, o \in Reqs :
        /\ r # o /\ request[r] = request[o] /\ Done(r) /\ Done(o)
        /\ response[r].success /\ RowsOf(r) # {}
        /\ CallsOf(o, "capture") # {}
        /\ \A i \in CallsOf(o, "capture") : calls[o][i].code = 404
        /\ response[o].status_code = 404 /\ RowsOf(o) = {}

\* the number written by a sequence of decimal digits
RECURSIVE DecimalValue(_)
DecimalValue(ds) ==
    IF ds = <<>> THEN 0 ELSE 10 * DecimalValue(SubSeq(ds, 1, Len(ds) - 1)) + ds[Len(ds)]
\* unix milliseconds of a clock reading, modulo 10000
MillisMod10000(t) == ((t.sec % 10) * 1000 + t.milli) % 10000
\* the requests that generated their identifiers
Generated == {r \in Reqs : now[r] # <<>>}

\* C15: donation_id is "SSLF-" and the last 6 decimal digits of the unix
\* seconds read in step 5; receipt_number is "RCP-", the year, and unix
\* milliseconds mod 10000 padded to 4 digits; nothing else enters them, so
\* two requests whose readings fall in the same second, or a multiple of
\* 1,000,000 seconds apart, have the same donation_id.
C15_IdentifiersFromTimestamp ==
    /\ \A r \in Generated :
            /\ donation_id[r].t = "donation_id"
            /\ Len(donation_id[r].v) = 6
            /\ DecimalValue(donation_id[r].v) = now[r][1].sec % 1000000
            /\ receipt_number[r].t = "receipt_number"
            /\ Head(receipt_number[r].v) = now[r][2].year
            /\ Len(Tail(receipt_number[r].v)) = 4
            /\ DecimalValue(Tail(receipt_number[r].v)) = MillisMod10000(now[r][3])
    /\ \A r \in Generated, o \in Generated :
            (now[r][1].sec - now[o][1].sec) % 1000000 = 0 => donation_id[r] = donation_id[o]

\* C15 witness: two requests for different orders, whose clock readings
\* were 1,000,000 seconds apart, stored records with the same donation_id.
C15_Witness ==
    /\ Len(donations) = 2
    /\ donations[1].req # donations[2].req
    /\ request[1].orderId # request[2].orderId
    /\ donations[1].row["donation_id"] = donations[2].row["donation_id"]
    /\ now[1][1].sec # now[2][1].sec

====
